---- MODULE Spec2Model ----
(***************************************************************************)
(* Lightroom / Flickr audit: the catalog's AgRemotePhoto table, the audit  *)
(* of one publish set against the Flickr account, the --fix-singles loop   *)
(* of main() and the repoint update_lr_remote_id, plus the side-car        *)
(* reader etree_to_dict / extract_xmp_document_id.                         *)
(*                                                                         *)
(* Strings are modelled by tokens.  A url is a sequence of tokens          *)
(* <<"flickr.com", remoteId, "/in/set-", setId>>; SQL LIKE '%x%' is        *)
(* "token x occurs", SQL REPLACE(url, old, new) replaces every token equal *)
(* to old.  SQL NULL and Python None are both the value None;               *)
(* a NULL url is the one-token sequence NullUrl.                            *)
(***************************************************************************)
EXTENDS Integers, Sequences, FiniteSets, TLC

VARIABLES
    args,            \* parsed command line: [fix_singles, no_deep]
    AgRemotePhoto,   \* catalog table, one record per row (committed state)
    images,          \* per local photo: capture time, file name, side-car id
    flickr_photos,   \* the Flickr account's photos (get_flickr_photos)
    lr_photos,       \* result of get_lr_photos for the set being processed
    pc,              \* position of main()
    flickr_sets,     \* result of get_flickr_sets
    set_idx,         \* index into flickr_sets of the set being processed
    audit_results,   \* result of perform_audit for the current set
    audits,          \* history: audit_results of every set processed so far
    mt_idx,          \* index into MatchTypes in the fix loop
    entry_idx,       \* index into audit_results[match_type] in the fix loop
    log,             \* history: every invocation of update_lr_remote_id
    xmp_input,       \* side-car input of the identifier extractor
    xmp_result       \* what extract_xmp_document_id did with xmp_input

vars == <<args, AgRemotePhoto, images, flickr_photos, lr_photos, pc,
          flickr_sets, set_idx, audit_results, audits, mt_idx, entry_idx,
          log, xmp_input, xmp_result>>

None == "None"

\* ---------------------------------------------------------------- bounds
MaxRows == 2        \* rows of AgRemotePhoto in a run of main()
MaxDbErrors == 1    \* sqlite3.Error faults injected in one behaviour
MaxLocal == 2       \* local photos handed to perform_audit on its own
MaxRemote == 2      \* remote photos handed to perform_audit on its own
MaxDescriptions == 2  \* rdf:Description children of an rdf:RDF element

\* ------------------------------------------------------------ url tokens
FlickrHost == "flickr.com"
InSet == "/in/set-"

FlickrUrl(id, set) == <<FlickrHost, id, InSet, set>>

\* a NULL url column
NullUrl == <<None>>

\* url LIKE '%flickr.com%'
LikeFlickr(url) == url # NullUrl /\ \E i \in DOMAIN url : url[i] = FlickrHost

\* SQL REPLACE(url, old, new); REPLACE of NULL is NULL
SqlReplace(url, old, new) ==
    IF url = NullUrl THEN NullUrl
    ELSE [i \in DOMAIN url |-> IF url[i] = old THEN new ELSE url[i]]

\* ------------------------------------------------------ perform_audit
\* audit_utils.perform_audit is imported by main() but its code is not among
\* the source files; it is modelled from the design document, section 4.2:
\* the already-linked pre-check, then timestamp, file name, document id.
\* A local photo is [lr_id, lr_remote_id, captureTimestamp, fileName,
\* embeddedDocumentId], a remote one [id, uploadTimestamp, fileName, documentId].
RemoteIdsOf(fl) == {fl[i].id : i \in DOMAIN fl}

\* the pre-check: the stored remoteId is the id of some remote photo
AlreadyLinked(p, fl) ==
    p.lr_remote_id # None /\ p.lr_remote_id \in RemoteIdsOf(fl)

TimestampCandidates(p, fl) ==
    IF p.captureTimestamp = None THEN <<>>
    ELSE SelectSeq(fl, LAMBDA r : r.uploadTimestamp = p.captureTimestamp)

FilenameCandidates(p, fl) ==
    SelectSeq(fl, LAMBDA r : r.fileName = p.fileName)

DocumentIdCandidates(p, fl) ==
    IF p.embeddedDocumentId = None THEN <<>>
    ELSE SelectSeq(fl, LAMBDA r : r.documentId # None
                                  /\ r.documentId = p.embeddedDocumentId)

\* a cascade that asks the file name before the timestamp
Classify_FilenameFirst(p, fl, deep) ==
    LET ts == TimestampCandidates(p, fl)
        fn == FilenameCandidates(p, fl)
        doc == DocumentIdCandidates(p, fl)
    IN  IF fn # <<>> THEN [bucket |-> "filename_matches", flickr_matches |-> fn]
        ELSE IF ts # <<>> THEN [bucket |-> "timestamp_matches", flickr_matches |-> ts]
        ELSE IF deep /\ doc # <<>>
             THEN [bucket |-> "document_id_matches", flickr_matches |-> doc]
        ELSE [bucket |-> "no_matches", flickr_matches |-> <<>>]

\* the cascade: the first strategy with a candidate decides the bucket
Classify(p, fl, deep) ==
    LET ts == TimestampCandidates(p, fl)
        fn == FilenameCandidates(p, fl)
        doc == DocumentIdCandidates(p, fl)
    IN  IF ts # <<>> THEN [bucket |-> "timestamp_matches", flickr_matches |-> ts]
        ELSE IF fn # <<>> THEN [bucket |-> "filename_matches", flickr_matches |-> fn]
        ELSE IF deep /\ doc # <<>>
             THEN [bucket |-> "document_id_matches", flickr_matches |-> doc]
        ELSE [bucket |-> "no_matches", flickr_matches |-> <<>>]

BucketEntries(todo, fl, deep, name) ==
    LET sel == SelectSeq(todo, LAMBDA p : Classify(p, fl, deep).bucket = name)
    IN  [i \in 1..Len(sel) |->
            [lr_photo |-> sel[i],
             flickr_matches |-> Classify(sel[i], fl, deep).flickr_matches]]

perform_audit(lr, fl, deep) ==
    LET todo == SelectSeq(lr, LAMBDA p : ~AlreadyLinked(p, fl))
    IN  [in_lr_not_in_flickr |-> todo,
         timestamp_matches   |-> BucketEntries(todo, fl, deep, "timestamp_matches"),
         filename_matches    |-> BucketEntries(todo, fl, deep, "filename_matches"),
         document_id_matches |-> BucketEntries(todo, fl, deep, "document_id_matches"),
         no_matches          |-> BucketEntries(todo, fl, deep, "no_matches")]

EmptyAudit ==
    [in_lr_not_in_flickr |-> <<>>, timestamp_matches |-> <<>>,
     filename_matches |-> <<>>, document_id_matches |-> <<>>,
     no_matches |-> <<>>]

\* ------------------------------------------------------ lightroom_ops
\* the text after the first 'set-' of a url: SUBSTRING(url, INSTR(url,'set-')+4)
SetIdOf(url) ==
    LET i == CHOOSE k \in DOMAIN url :
                 url[k] = InSet /\ \A j \in 1..(k - 1) : url[j] # InSet
    IN  SubSeq(url, i + 1, Len(url))

\* url LIKE '%/in/set-<set_id>%' for a set_id that is itself a piece of url
LikeSetId(url, set_id) ==
    url # NullUrl /\ \E i \in DOMAIN url :
        url[i] = InSet /\ SubSeq(url, i + 1, i + Len(set_id)) = set_id

\* SELECT DISTINCT ... FROM AgRemotePhoto WHERE url LIKE ... : the set ids
get_flickr_sets(cat) ==
    {SetIdOf(cat[i].url) :
        i \in {k \in DOMAIN cat : LikeFlickr(cat[k].url)
                                  /\ \E j \in DOMAIN cat[k].url : cat[k].url[j] = InSet}}

\* the orders in which the rows of a SELECT without ORDER BY may come
Orderings(S) ==
    {q \in [1..Cardinality(S) -> S] : \A a \in S : \E i \in DOMAIN q : q[i] = a}

\* one lr_photo per joined row whose url names Flickr and the set
get_lr_photos(cat, img, set_id) ==
    LET rows == SelectSeq(cat, LAMBDA r : LikeFlickr(r.url) /\ LikeSetId(r.url, set_id))
    IN  [i \in 1..Len(rows) |->
            [lr_id |-> rows[i].photo,
             lr_remote_id |-> rows[i].remoteId,
             captureTimestamp |-> img[rows[i].photo].captureTimestamp,
             fileName |-> img[rows[i].photo].fileName,
             embeddedDocumentId |-> img[rows[i].photo].embeddedDocumentId]]

\* WHERE remoteId = ? : a NULL on either side compares unknown, never true
RowsWithRemoteId(cat, id) ==
    IF id = None THEN {}
    ELSE {i \in DOMAIN cat : cat[i].remoteId # None /\ cat[i].remoteId = id}

\* UPDATE AgRemotePhoto SET remoteId, url, photoNeedsUpdating WHERE remoteId = old
SqlUpdate(cat, old, new) ==
    [i \in DOMAIN cat |->
        IF i \in RowsWithRemoteId(cat, old)
        THEN [cat[i] EXCEPT !.remoteId = new,
                            !.url = SqlReplace(cat[i].url, old, new),
                            !.photoNeedsUpdating = 1]
        ELSE cat[i]]

Faults == {"none", "select", "update", "commit"}

\* update_lr_remote_id(conn, old, new): the catalog it leaves committed and
\* how it ends: "True" / "False" returned, or the exception that leaves it.
\* pick is the row fetchone() answers with (0 when there is none), fault the
\* statement at which sqlite3 reports an error.
update_lr_remote_id(cat, old, new, pick, fault) ==
    LET found == RowsWithRemoteId(cat, old)
        updated == SqlUpdate(cat, old, new)
        rowcount == Cardinality(found)
    IN  IF fault = "select" THEN [catalog |-> cat, outcome |-> "False"]
        ELSE IF found = {}
             \* raise(<a str>): TypeError, which is no sqlite3.Error
             THEN [catalog |-> cat, outcome |-> "TypeError"]
        ELSE IF cat[pick].url = NullUrl
             \* None.replace(...): AttributeError
             THEN [catalog |-> cat, outcome |-> "AttributeError"]
        ELSE IF fault \in {"update", "commit"}
             \* except sqlite3.Error: conn.rollback()
             THEN [catalog |-> cat, outcome |-> "False"]
        ELSE IF rowcount > 0
             THEN [catalog |-> updated, outcome |-> "True"]
        ELSE [catalog |-> updated, outcome |-> "False"]

Picks(cat, old) ==
    IF RowsWithRemoteId(cat, old) = {} THEN {0} ELSE RowsWithRemoteId(cat, old)

Raised == {"TypeError", "AttributeError"}

\* --------------------------------------------------------------- main()
MatchTypes == <<"timestamp_matches", "filename_matches", "document_id_matches">>

\* a deep scan that ignores --no-deep
DeepScanArg_Always(a) == TRUE

\* perform_audit's third argument: not args.no_deep
DeepScanArg(a) == ~a.no_deep

\* a guard that lets several candidates through and takes the first
FixGuard_AnyCandidate(photo) == Len(photo.flickr_matches) >= 1

\* if len(photo["flickr_matches"]) == 1
FixGuard(photo) == Len(photo.flickr_matches) = 1

\* the report's counts
total_lr_photos == Len(lr_photos)
in_lr_not_in_flickr == Len(audit_results["in_lr_not_in_flickr"])
timestamp_matches == Len(audit_results["timestamp_matches"])
filename_matches == Len(audit_results["filename_matches"])
document_id_matches == Len(audit_results["document_id_matches"])
\* the no-match count read from the wrong key
no_matches_WrongKey == Len(audit_results["filename_matches"])

no_matches == Len(audit_results["no_matches"])

\* the position of the first entry at or after (mt, i) in the nested loops
\* over MatchTypes and audit_results[match_type]; <<Len(MatchTypes)+1, 1>>
\* when the loops are over
RECURSIVE LoopPos(_, _, _)
LoopPos(res, mt, i) ==
    IF mt > Len(MatchTypes) THEN <<mt, 1>>
    ELSE IF i <= Len(res[MatchTypes[mt]]) THEN <<mt, i>>
    ELSE LoopPos(res, mt + 1, 1)

DbErrors == Cardinality({k \in DOMAIN log : log[k].db_error})

FaultsNow == IF DbErrors < MaxDbErrors THEN Faults ELSE {"none"}

\* lines 34-40: connect, get_flickr_sets
Start ==
    /\ pc = "start"
    /\ \E order \in Orderings(get_flickr_sets(AgRemotePhoto)) :
          flickr_sets' = order
    /\ set_idx' = 1
    /\ pc' = "set_loop"
    /\ UNCHANGED <<args, AgRemotePhoto, images, flickr_photos, lr_photos,
                   audit_results, audits, mt_idx, entry_idx, log,
                   xmp_input, xmp_result>>

\* lines 42-72 (and 78-79): read the set, audit it, report, enter the fix loop
ProcessSet ==
    /\ pc = "set_loop"
    /\ set_idx <= Len(flickr_sets)
    /\ LET lr == get_lr_photos(AgRemotePhoto, images, flickr_sets[set_idx])
           res == perform_audit(lr, flickr_photos, DeepScanArg(args))
           pos == LoopPos(res, 1, 1)
       IN  /\ lr_photos' = lr
           /\ audit_results' = res
           /\ audits' = Append(audits, res)
           /\ IF args.fix_singles /\ pos[1] <= Len(MatchTypes)
              THEN /\ pc' = "fix_loop"
                   /\ mt_idx' = pos[1]
                   /\ entry_idx' = pos[2]
                   /\ set_idx' = set_idx
              ELSE /\ pc' = "set_loop"
                   /\ set_idx' = set_idx + 1
                   /\ UNCHANGED <<mt_idx, entry_idx>>
    /\ UNCHANGED <<args, AgRemotePhoto, images, flickr_photos, flickr_sets,
                   log, xmp_input, xmp_result>>

\* where the loops stand after the entry at (mt_idx, entry_idx)
Advance ==
    LET pos == LoopPos(audit_results, mt_idx, entry_idx + 1)
    IN  IF pos[1] <= Len(MatchTypes)
        THEN /\ pc' = "fix_loop"
             /\ mt_idx' = pos[1]
             /\ entry_idx' = pos[2]
             /\ set_idx' = set_idx
        ELSE /\ pc' = "set_loop"
             /\ set_idx' = set_idx + 1
             /\ UNCHANGED <<mt_idx, entry_idx>>

\* lines 73-74: an entry whose candidate list is not of length one
FixSkip ==
    /\ pc = "fix_loop"
    /\ ~FixGuard(audit_results[MatchTypes[mt_idx]][entry_idx])
    /\ Advance
    /\ UNCHANGED <<args, AgRemotePhoto, images, flickr_photos, lr_photos,
                   flickr_sets, audit_results, audits, log, xmp_input, xmp_result>>

\* lines 73-77: an entry with one candidate: update_lr_remote_id
FixApply ==
    /\ pc = "fix_loop"
    /\ LET photo == audit_results[MatchTypes[mt_idx]][entry_idx]
       IN  /\ FixGuard(photo)
           /\ LET flickr_id == photo.flickr_matches[1].id
                  old_flickr_id == photo.lr_photo.lr_remote_id
              IN  \E pick \in Picks(AgRemotePhoto, old_flickr_id), fault \in FaultsNow :
                    LET r == update_lr_remote_id(AgRemotePhoto, old_flickr_id,
                                                 flickr_id, pick, fault)
                    IN  /\ AgRemotePhoto' = r.catalog
                        /\ log' = Append(log,
                              [set |-> set_idx,
                               match_type |-> MatchTypes[mt_idx],
                               entry |-> entry_idx,
                               lr_id |-> photo.lr_photo.lr_id,
                               old |-> old_flickr_id,
                               new |-> flickr_id,
                               outcome |-> r.outcome,
                               db_error |-> (fault # "none" /\ r.outcome = "False"),
                               before |-> AgRemotePhoto,
                               after |-> r.catalog])
                        /\ IF r.outcome \in Raised
                           THEN /\ pc' = "crashed"
                                /\ UNCHANGED <<set_idx, mt_idx, entry_idx>>
                           ELSE Advance
    /\ UNCHANGED <<args, images, flickr_photos, lr_photos, flickr_sets,
                   audit_results, audits, xmp_input, xmp_result>>

\* lines 81-85: the title report, conn.close()
Finish ==
    /\ pc = "set_loop"
    /\ set_idx > Len(flickr_sets)
    /\ pc' = "done"
    /\ UNCHANGED <<args, AgRemotePhoto, images, flickr_photos, lr_photos,
                   flickr_sets, set_idx, audit_results, audits, mt_idx,
                   entry_idx, log, xmp_input, xmp_result>>

\* ---------------------------------------------- the inputs of a run
StaleId == "900"
SetIds == {"S1", "S2"}

\* the Flickr account of the runs of main()
Account ==
    << [id |-> "100", uploadTimestamp |-> "T1", fileName |-> "a.jpg", documentId |-> None],
       [id |-> "200", uploadTimestamp |-> "T2", fileName |-> "b.jpg", documentId |-> "D1"],
       [id |-> "300", uploadTimestamp |-> "T2", fileName |-> "a.jpg", documentId |-> None] >>

\* local photos against Account: one timestamp candidate (and two file-name
\* ones), two timestamp candidates, one file-name candidate, two file-name
\* candidates, one document-id candidate, no candidate
LocalKinds ==
    { [captureTimestamp |-> "T1", fileName |-> "a.jpg", embeddedDocumentId |-> None],
      [captureTimestamp |-> "T2", fileName |-> "x.jpg", embeddedDocumentId |-> None],
      [captureTimestamp |-> None, fileName |-> "b.jpg", embeddedDocumentId |-> None],
      [captureTimestamp |-> None, fileName |-> "a.jpg", embeddedDocumentId |-> None],
      [captureTimestamp |-> None, fileName |-> "x.jpg", embeddedDocumentId |-> "D1"],
      [captureTimestamp |-> None, fileName |-> "x.jpg", embeddedDocumentId |-> None] }

StoredIds == {None, StaleId, "100"}

Idle ==
    /\ lr_photos = <<>>
    /\ flickr_sets = <<>>
    /\ set_idx = 0
    /\ audit_results = EmptyAudit
    /\ audits = <<>>
    /\ mt_idx = 0
    /\ entry_idx = 0
    /\ log = <<>>

NoXmp ==
    /\ xmp_input = [t |-> "None", v |-> <<>>]
    /\ xmp_result = [status |-> "idle", value |-> [t |-> "None", v |-> <<>>]]

Init ==
    /\ args \in [fix_singles : BOOLEAN, no_deep : BOOLEAN]
    /\ \E ids \in [1..MaxRows -> StoredIds], sets \in [1..MaxRows -> SetIds] :
          AgRemotePhoto = [i \in 1..MaxRows |->
              [photo |-> i, remoteId |-> ids[i],
               url |-> FlickrUrl(IF ids[i] = None THEN "" ELSE ids[i], sets[i]),
               photoNeedsUpdating |-> 0]]
    /\ images \in [1..MaxRows -> LocalKinds]
    /\ flickr_photos = Account
    /\ pc = "start"
    /\ Idle
    /\ NoXmp

Next == Start \/ ProcessSet \/ FixSkip \/ FixApply \/ Finish

Spec == Init /\ [][Next]_vars

\* =============================================== claims about main()
RowOf(cat, lr_id) == CHOOSE i \in DOMAIN cat : cat[i].photo = lr_id

\* the entries of the three buckets the fix loop walks, for set number s
MatchEntries(s) ==
    {<<mt, i>> \in (1..Len(MatchTypes)) \X (1..MaxRows) :
        i \in DOMAIN audits[s][MatchTypes[mt]]}

EntryAt(s, mt, i) == audits[s][MatchTypes[mt]][i]

Attempted(s, mt, i) ==
    \E k \in DOMAIN log :
        log[k].set = s /\ log[k].match_type = MatchTypes[mt] /\ log[k].entry = i

\* the run is over: main() returned, or an exception left it
RunEnded == pc \in {"done", "crashed"}

\* the fix pass over the set last audited is over
PassOver ==
    /\ args.fix_singles
    /\ audits # <<>>
    /\ pc \in {"set_loop", "done", "crashed"}

\* C1: every invocation of update_lr_remote_id is made for an entry of
\* timestamp_matches, filename_matches or document_id_matches whose
\* flickr_matches has exactly one element, with that element's id as the new
\* identifier; so no entry with zero or several candidates, and no entry of
\* no_matches, ever has a write issued for it.
C1_WritesOnlyForSingleCandidate ==
    \A k \in DOMAIN log :
        /\ log[k].set \in DOMAIN audits
        /\ \E mt \in 1..Len(MatchTypes) :
              /\ log[k].match_type = MatchTypes[mt]
              /\ log[k].entry \in DOMAIN audits[log[k].set][MatchTypes[mt]]
              /\ LET e == EntryAt(log[k].set, mt, log[k].entry)
                 IN  /\ Len(e.flickr_matches) = 1
                     /\ log[k].new = e.flickr_matches[1].id
                     /\ log[k].lr_id = e.lr_photo.lr_id
                     /\ log[k].old = e.lr_photo.lr_remote_id

\* a finished run that walked past an entry with several candidates without
\* a write for it, and wrote for an entry with one candidate
C1_Witness ==
    /\ pc = "done"
    /\ \E k \in DOMAIN log : log[k].outcome = "True"
    /\ \E s \in DOMAIN audits : \E p \in MatchEntries(s) :
          /\ Len(EntryAt(s, p[1], p[2]).flickr_matches) >= 2
          /\ ~Attempted(s, p[1], p[2])

\* C2: once the fix pass over a set is over, every entry of the three
\* buckets with exactly one candidate has its photo's stored remoteId equal
\* to that candidate's id (no database error having been reported).
C2_SinglesRepointed ==
    (PassOver /\ DbErrors = 0) =>
        \A mt \in 1..Len(MatchTypes) :
            \A i \in DOMAIN audit_results[MatchTypes[mt]] :
                LET e == audit_results[MatchTypes[mt]][i]
                IN  Len(e.flickr_matches) = 1 =>
                        AgRemotePhoto[RowOf(AgRemotePhoto, e.lr_photo.lr_id)].remoteId
                            = e.flickr_matches[1].id

\* C3: of two consecutive invocations with the same (old, new), old # new,
\* a record being stored under old before the first, the first returns True
\* and the second returns False without raising and leaves the catalog as
\* the first left it.
C3_SecondRepointIsNoOp ==
    \A k \in DOMAIN log :
        ( /\ k + 1 \in DOMAIN log
          /\ log[k].old = log[k + 1].old
          /\ log[k].new = log[k + 1].new
          /\ log[k].old # log[k].new
          /\ RowsWithRemoteId(log[k].before, log[k].old) # {}
          /\ ~log[k].db_error /\ ~log[k + 1].db_error
          /\ log[k + 1].before = log[k].after )
        => /\ log[k].outcome = "True"
           /\ log[k + 1].outcome = "False"
           /\ log[k + 1].after = log[k].after

\* C4: a failed write ends neither the loop nor the run: when the run is
\* over it is main() that returned, every set was audited, and a write was
\* attempted for every single-candidate entry of every set.
C4_FailureIsLocal ==
    RunEnded =>
        /\ pc = "done"
        /\ Len(audits) = Len(flickr_sets)
        /\ args.fix_singles =>
              \A s \in DOMAIN audits : \A p \in MatchEntries(s) :
                  Len(EntryAt(s, p[1], p[2]).flickr_matches) = 1
                      => Attempted(s, p[1], p[2])

\* C5: an invocation that does not end in success leaves the catalog as it
\* was and reports failure to its caller (returns False).
C5_FailureLeavesCatalogAndReturnsFalse ==
    \A k \in DOMAIN log :
        log[k].outcome # "True" =>
            /\ log[k].after = log[k].before
            /\ log[k].outcome = "False"

\* C8: with --no-deep, document_id_matches is empty, a photo to reconcile
\* without timestamp or file-name candidate is in no_matches even when its
\* embedded document id is some remote photo's, and no write comes from a
\* document-id match.
C8_NoDeepNoDocumentIdMatches ==
    args.no_deep =>
        /\ document_id_matches = 0
        /\ \A s \in DOMAIN audits : audits[s]["document_id_matches"] = <<>>
        /\ \A i \in DOMAIN lr_photos :
              LET p == lr_photos[i]
              IN  ( /\ \A j \in DOMAIN flickr_photos :
                          /\ flickr_photos[j].id # p.lr_remote_id
                          /\ flickr_photos[j].uploadTimestamp # p.captureTimestamp
                          /\ flickr_photos[j].fileName # p.fileName )
                  => \E n \in DOMAIN audit_results["no_matches"] :
                        audit_results["no_matches"][n].lr_photo = p
        /\ \A k \in DOMAIN log : log[k].match_type # "document_id_matches"

\* a finished --no-deep --fix-singles run that audited a photo whose
\* embedded document id is a remote photo's and left it in no_matches
C8_Witness ==
    /\ pc = "done"
    /\ args.no_deep
    /\ args.fix_singles
    /\ \E n \in DOMAIN audit_results["no_matches"] :
          LET p == audit_results["no_matches"][n].lr_photo
          IN  /\ p.embeddedDocumentId # None
              /\ \E j \in DOMAIN flickr_photos :
                    flickr_photos[j].documentId = p.embeddedDocumentId

\* C10: an invocation made for one local photo changes that photo's row
\* only; every other row of AgRemotePhoto is after it what it was before.
C10_OnlyThePhotosRowChanges ==
    \A k \in DOMAIN log :
        \A i \in DOMAIN log[k].before :
            log[k].before[i].photo # log[k].lr_id
                => log[k].after[i] = log[k].before[i]

\* ======================================= perform_audit on its own inputs
Timestamps == {"T1", "T2"}
FileNames == {"a.jpg", "b.jpg"}
DocumentIds == {"D1"}
RemoteIdSeq == <<"100", "200", "300", "400">>

\* every local photo carries the file name "a.jpg"; the remote file names
\* vary, so a local file name has zero, one or several remote equals
LocalPhotos(n) ==
    {lr \in [1..n -> [lr_id : 1..n,
                      lr_remote_id : StoredIds,
                      captureTimestamp : {None, "T1"},
                      fileName : {"a.jpg"},
                      embeddedDocumentId : {None} \cup DocumentIds]] :
        \A i \in 1..n : lr[i].lr_id = i}

RemotePhotos(n) ==
    {fl \in [1..n -> [id : {RemoteIdSeq[i] : i \in 1..n},
                      uploadTimestamp : Timestamps,
                      fileName : FileNames,
                      documentId : {None} \cup DocumentIds]] :
        \A i \in 1..n : fl[i].id = RemoteIdSeq[i]}

InitAudit ==
    /\ args \in [fix_singles : {FALSE}, no_deep : BOOLEAN]
    /\ AgRemotePhoto = <<>>
    /\ images = <<>>
    /\ \E n \in 0..MaxLocal : lr_photos \in LocalPhotos(n)
    /\ \E n \in 0..MaxRemote : flickr_photos \in RemotePhotos(n)
    /\ pc = "audit_call"
    /\ flickr_sets = <<>>
    /\ set_idx = 0
    /\ audit_results = EmptyAudit
    /\ audits = <<>>
    /\ mt_idx = 0
    /\ entry_idx = 0
    /\ log = <<>>
    /\ NoXmp

\* line 47: audit_results = perform_audit(lr_photos, flickr_photos, not args.no_deep)
AuditCall ==
    /\ pc = "audit_call"
    /\ audit_results' = perform_audit(lr_photos, flickr_photos, DeepScanArg(args))
    /\ pc' = "audited"
    /\ UNCHANGED <<args, AgRemotePhoto, images, flickr_photos, lr_photos,
                   flickr_sets, set_idx, audits, mt_idx, entry_idx, log,
                   xmp_input, xmp_result>>

NextAudit == AuditCall

SpecAudit == InitAudit /\ [][NextAudit]_vars

Buckets == {"timestamp_matches", "filename_matches", "document_id_matches", "no_matches"}

\* how often local photo p is an entry of bucket b
Occurrences(p, b) ==
    Cardinality({j \in DOMAIN audit_results[b] : audit_results[b][j].lr_photo = p})

\* how often p is an entry of any of the four buckets
RECURSIVE TotalOccurrences(_, _)
TotalOccurrences(p, bs) ==
    IF bs = {} THEN 0
    ELSE LET b == CHOOSE x \in bs : TRUE
         IN  Occurrences(p, b) + TotalOccurrences(p, bs \ {b})

\* the stored remoteId is the id of a remote photo
LinkedAt(i) ==
    \E j \in DOMAIN flickr_photos : flickr_photos[j].id = lr_photos[i].lr_remote_id

SameTimestamp(i) ==
    {j \in DOMAIN flickr_photos :
        lr_photos[i].captureTimestamp # None
        /\ flickr_photos[j].uploadTimestamp = lr_photos[i].captureTimestamp}

SameFileName(i) ==
    {j \in DOMAIN flickr_photos : flickr_photos[j].fileName = lr_photos[i].fileName}

SameDocumentId(i) ==
    {j \in DOMAIN flickr_photos :
        lr_photos[i].embeddedDocumentId # None
        /\ flickr_photos[j].documentId = lr_photos[i].embeddedDocumentId}

\* p is an entry of bucket b, its candidates being the remote photos js
EntryWith(i, b, js) ==
    \E n \in DOMAIN audit_results[b] :
        LET e == audit_results[b][n]
        IN  /\ e.lr_photo = lr_photos[i]
            /\ Len(e.flickr_matches) = Cardinality(js)
            /\ {e.flickr_matches[k] : k \in DOMAIN e.flickr_matches}
                  = {flickr_photos[j] : j \in js}

\* C6: after the audit every local photo whose stored remoteId is no remote
\* photo's id (or is absent) is an entry of exactly one of the four buckets,
\* an already linked photo is an entry of none, and the four counts of the
\* report add up to the count of in_lr_not_in_flickr, which is the number of
\* local photos less the already linked ones.
C6_PartitionComplete ==
    pc = "audited" =>
        /\ \A i \in DOMAIN lr_photos :
              TotalOccurrences(lr_photos[i], Buckets) = IF LinkedAt(i) THEN 0 ELSE 1
        /\ timestamp_matches + filename_matches + document_id_matches + no_matches
              = in_lr_not_in_flickr
        /\ in_lr_not_in_flickr
              = total_lr_photos - Cardinality({i \in DOMAIN lr_photos : LinkedAt(i)})

\* an audit of an already linked photo and of a photo that no strategy
\* matches, against an account of two photos
C6_Witness ==
    /\ pc = "audited"
    /\ Len(flickr_photos) >= 2
    /\ \E i, j \in DOMAIN lr_photos :
          /\ LinkedAt(i)
          /\ ~LinkedAt(j)
          /\ Occurrences(lr_photos[j], "no_matches") = 1

\* C7: the first of timestamp, file name, embedded document id that has a
\* candidate decides the bucket of a photo to reconcile, and the entry's
\* candidates are exactly the remote photos that strategy finds; a photo
\* with a timestamp candidate is in timestamp_matches, never in
\* filename_matches, whatever remote photos carry its file name.
C7_CascadePriority ==
    pc = "audited" =>
        \A i \in DOMAIN lr_photos :
            ~LinkedAt(i) =>
                IF SameTimestamp(i) # {}
                THEN /\ EntryWith(i, "timestamp_matches", SameTimestamp(i))
                     /\ Occurrences(lr_photos[i], "filename_matches") = 0
                ELSE IF SameFileName(i) # {}
                THEN EntryWith(i, "filename_matches", SameFileName(i))
                ELSE IF ~args.no_deep /\ SameDocumentId(i) # {}
                THEN EntryWith(i, "document_id_matches", SameDocumentId(i))
                ELSE EntryWith(i, "no_matches", {})

\* an audited photo whose timestamp is one remote photo's and whose file
\* name is another's
C7_Witness ==
    /\ pc = "audited"
    /\ \E i \in DOMAIN lr_photos :
          /\ ~LinkedAt(i)
          /\ SameTimestamp(i) # {}
          /\ SameFileName(i) # {}
          /\ SameFileName(i) \cap SameTimestamp(i) = {}
          /\ EntryWith(i, "timestamp_matches", SameTimestamp(i))

\* ============================================ the side-car reader
\* Python values: None, a str, a list, a dict (a function on its keys), and
\* bytes (a side-car that did not decompress stays the stored blob)
NoneV == [t |-> "None", v |-> <<>>]
StrV(s) == [t |-> "str", v |-> s]
ListV(items) == [t |-> "list", v |-> items]
DictV(f) == [t |-> "dict", v |-> f]
BytesV == [t |-> "bytes", v |-> <<>>]

\* bool(x)
Truthy(x) ==
    CASE x.t = "None" -> FALSE
      [] x.t = "str" -> x.v # ""
      [] x.t = "dict" -> DOMAIN x.v # {}
      [] x.t = "list" -> x.v # <<>>
      [] OTHER -> TRUE

\* str.strip() on the texts of the model
Strip(s) == IF s = " " THEN "" ELSE s

\* '@' + k for the attribute names of the model
AtKey(k) ==
    CASE k = "xmpMM:DocumentID" -> "@xmpMM:DocumentID"
      [] k = "rdf:about" -> "@rdf:about"
      [] k = "x:xmptk" -> "@x:xmptk"

\* etree_to_dict(t) for an element t = [tag, attrib, children, text], attrib
\* a sequence of <<name, value>> pairs: the value it stores under t.tag, and
\* the one-key dict it returns
RECURSIVE etree_value(_)
etree_value(t) ==
    LET has_attrib == t.attrib # <<>>
        has_children == t.children # <<>>
        keys == {t.children[i].tag : i \in DOMAIN t.children}
        vals(k) ==
            LET idx == SelectSeq([i \in DOMAIN t.children |-> i],
                                 LAMBDA i : t.children[i].tag = k)
            IN  [n \in DOMAIN idx |-> etree_value(t.children[idx[n]])]
        d0 == IF has_attrib THEN DictV(<<>>) ELSE NoneV
        d1 == IF has_children
              THEN DictV([k \in keys |->
                          IF Len(vals(k)) = 1 THEN vals(k)[1] ELSE ListV(vals(k))])
              ELSE d0
        attrs == [k \in {AtKey(t.attrib[i][1]) : i \in DOMAIN t.attrib} |->
                     StrV(t.attrib[CHOOSE i \in DOMAIN t.attrib :
                                       AtKey(t.attrib[i][1]) = k][2])]
        d2 == IF has_attrib THEN DictV(attrs @@ d1.v) ELSE d1
    IN  IF t.text # None /\ t.text # ""
        THEN IF has_children \/ has_attrib
             THEN IF Strip(t.text) # ""
                  THEN DictV(("#text" :> StrV(Strip(t.text))) @@ d2.v)
                  ELSE d2
             ELSE StrV(Strip(t.text))
        ELSE d2

etree_to_dict(t) == DictV(t.tag :> etree_value(t))

NoAttrib == <<>>

\* data that etree.fromstring rejects
Malformed == [tag |-> "", attrib |-> NoAttrib, children |-> <<>>, text |-> None]

\* parse_xmp: the dict of the root, or None when the data does not parse
parse_xmp(xmp_data) ==
    IF xmp_data = Malformed THEN NoneV ELSE etree_to_dict(xmp_data)

\* x.get(k, default) on a dict x
DictGet(x, k, default) == IF k \in DOMAIN x.v THEN x.v[k] ELSE default

\* extract_xmp_document_id(xmp_data): what it returns, or AttributeError when
\* .get is asked of a value that is no dict
extract_xmp_document_id(xmp_data) ==
    IF Truthy(xmp_data) /\ xmp_data.t = "dict"
    THEN LET meta == DictGet(xmp_data, "x:xmpmeta", DictV(<<>>))
         IN  IF meta.t # "dict" THEN [status |-> "AttributeError", value |-> NoneV]
             ELSE LET rdf == DictGet(meta, "rdf:RDF", DictV(<<>>))
                  IN  IF rdf.t # "dict"
                      THEN [status |-> "AttributeError", value |-> NoneV]
                      ELSE LET description == DictGet(rdf, "rdf:Description", DictV(<<>>))
                           IN  IF description.t # "dict"
                               THEN [status |-> "AttributeError", value |-> NoneV]
                               ELSE [status |-> "returned",
                                     value |-> DictGet(description, "@xmpMM:DocumentID", NoneV)]
    ELSE [status |-> "returned", value |-> NoneV]

\* the side-car documents of the model
Descriptions ==
    [tag : {"rdf:Description"},
     attrib : {NoAttrib, <<<<"xmpMM:DocumentID", "doc1">>>>, <<<<"rdf:about", "x">>>>},
     children : {<<>>},
     text : {None, "txt"}]

RdfElements ==
    [tag : {"rdf:RDF"},
     attrib : {NoAttrib},
     children : UNION {[1..n -> Descriptions] : n \in 0..MaxDescriptions},
     text : {None, " ", "txt"}]

Roots ==
    [tag : {"x:xmpmeta", "html"},
     attrib : {NoAttrib, <<<<"x:xmptk", "tk">>>>},
     children : {<<>>} \cup {<<r>> : r \in RdfElements},
     text : {None}]

\* what get_lr_photos leaves under 'xmp': nothing, the blob that did not
\* decompress, or parse_xmp of the decompressed document
SideCar(kind, root) ==
    CASE kind = "absent" -> NoneV
      [] kind = "blob" -> BytesV
      [] kind = "empty dict" -> DictV(<<>>)
      [] kind = "document" -> parse_xmp(root)

InitXmp ==
    /\ \E kind \in {"absent", "blob", "empty dict", "document"} :
          \E root \in IF kind = "document" THEN Roots \cup {Malformed} ELSE {Malformed} :
              xmp_input = SideCar(kind, root)
    /\ xmp_result = [status |-> "idle", value |-> NoneV]
    /\ args = [fix_singles |-> FALSE, no_deep |-> FALSE]
    /\ AgRemotePhoto = <<>>
    /\ images = <<>>
    /\ flickr_photos = <<>>
    /\ pc = "extract_call"
    /\ Idle

ExtractCall ==
    /\ pc = "extract_call"
    /\ xmp_result' = extract_xmp_document_id(xmp_input)
    /\ pc' = "extracted"
    /\ UNCHANGED <<args, AgRemotePhoto, images, flickr_photos, lr_photos,
                   flickr_sets, set_idx, audit_results, audits, mt_idx,
                   entry_idx, log, xmp_input>>

NextXmp == ExtractCall

SpecXmp == InitXmp /\ [][NextXmp]_vars

\* every step of the path x:xmpmeta / rdf:RDF / rdf:Description is a dict
\* and the attribute is there
PathPresent(x) ==
    /\ x.t = "dict"
    /\ "x:xmpmeta" \in DOMAIN x.v
    /\ x.v["x:xmpmeta"].t = "dict"
    /\ "rdf:RDF" \in DOMAIN x.v["x:xmpmeta"].v
    /\ x.v["x:xmpmeta"].v["rdf:RDF"].t = "dict"
    /\ "rdf:Description" \in DOMAIN x.v["x:xmpmeta"].v["rdf:RDF"].v
    /\ x.v["x:xmpmeta"].v["rdf:RDF"].v["rdf:Description"].t = "dict"
    /\ "@xmpMM:DocumentID"
          \in DOMAIN x.v["x:xmpmeta"].v["rdf:RDF"].v["rdf:Description"].v

\* C9: extract_xmp_document_id never raises; it returns None unless every
\* step of the path is a dict and the attribute is present, and only then a
\* value that is not None.
C9_ExtractorIsTotal ==
    pc = "extracted" =>
        /\ xmp_result.status = "returned"
        /\ xmp_result.value.t # "None" => PathPresent(xmp_input)

====
